---- MODULE Spec2Model ----
(***************************************************************************)
(* Model of the financial-advisor tool layer: the web-search tool and its  *)
(* markdown cleaning (tools.py), the market-data tools                     *)
(* (sub_agents/data_analyst.py, sub_agents/financial_analyst.py), the      *)
(* analysts' output keys and the report assembler (agent.py).              *)
(*                                                                         *)
(* Python values are tagged records: None, Str(s) with s the sequence of    *)
(* the string's characters (an opaque word may stand as one element),      *)
(* Num(n), Bool(b), List(items).  A dict is a function from its keys; a    *)
(* key it does not hold is not in its DOMAIN.  A call that raises yields   *)
(* Raised(...), a call that returns v yields Returned(v).                  *)
(***************************************************************************)
EXTENDS Integers, Sequences, FiniteSets, TLC

VARIABLES
    pc,         \* position of the tool invocation under study: "ready" / "done"
    fn,         \* name of the tool function that ran ("none" before the call)
    args,       \* its arguments
    env,        \* what the external provider does for this call
    ret,        \* what the call returned (or Raised)
    state,      \* tool_context.state: the session's shared state
    artifacts,  \* artifact store: filename -> blob last saved under it
    actor,      \* the tool or agent the runtime invoked last
    lastCall,   \* arguments and outcome of the last save_advice_report call
    nSaves      \* number of save_advice_report invocations so far

vars == <<pc, fn, args, env, ret, state, artifacts, actor, lastCall, nSaves>>

None == [t |-> "None"]
Str(s) == [t |-> "str", s |-> s]
Num(n) == [t |-> "num", n |-> n]
List(items) == [t |-> "list", items |-> items]
EmptyStr == Str(<<>>)
Idle == [kind |-> "idle"]
Raised(e) == [kind |-> "raise", exc |-> e]
Returned(v) == [kind |-> "return", value |-> v]

(***************************************************************************)
(* tools.py: _clean_markdown                                               *)
(***************************************************************************)
BS == "\\"
NL == "\n"
SP == " "

\* Python's \s and str.strip() over the model's alphabet.
IsSpace(c) == c \in {SP, NL}

RECURSIVE SkipRun(_, _)
\* the rest of t after its leading run of character c
SkipRun(t, c) ==
    IF t # <<>> /\ Head(t) = c THEN SkipRun(Tail(t), c) ELSE t

RECURSIVE CollapseEscapes(_)
\* re.sub(r"\\+|\n+", " ", text): every run of backslashes and every run of
\* newlines becomes one space
CollapseEscapes(t) ==
    IF t = <<>> THEN <<>>
    ELSE IF Head(t) = BS THEN <<SP>> \o CollapseEscapes(SkipRun(t, BS))
    ELSE IF Head(t) = NL THEN <<SP>> \o CollapseEscapes(SkipRun(t, NL))
    ELSE <<Head(t)>> \o CollapseEscapes(Tail(t))

RECURSIVE LStrip(_)
LStrip(t) == IF t # <<>> /\ IsSpace(Head(t)) THEN LStrip(Tail(t)) ELSE t

RECURSIVE RStrip(_)
RStrip(t) ==
    IF t # <<>> /\ IsSpace(t[Len(t)]) THEN RStrip(SubSeq(t, 1, Len(t) - 1)) ELSE t

\* str.strip()
Strip(t) == RStrip(LStrip(t))

\* t has the characters of lit at positions i .. i+Len(lit)-1
StartsAt(t, i, lit) ==
    /\ i + Len(lit) - 1 <= Len(t)
    /\ \A k \in 1..Len(lit) : t[i + k - 1] = lit[k]

\* the first position >= i holding character c, or 0
FirstAt(t, i, c) ==
    IF \E j \in i..Len(t) : t[j] = c
    THEN CHOOSE j \in i..Len(t) : t[j] = c /\ \A k \in i..(j - 1) : t[k] # c
    ELSE 0

\* \[[^\]]+\]\([^\)]+\) matched at position i: the position of its last
\* character, or 0 when it does not match there
MatchLink(t, i) ==
    IF i > Len(t) \/ t[i] # "[" THEN 0
    ELSE LET j == FirstAt(t, i + 1, "]") IN
         IF j = 0 \/ j = i + 1 THEN 0
         ELSE IF j + 1 > Len(t) \/ t[j + 1] # "(" THEN 0
         ELSE LET k == FirstAt(t, j + 2, ")") IN
              IF k = 0 \/ k = j + 2 THEN 0 ELSE k

\* the last position of the run of non-whitespace characters starting at i
\* (i - 1 when there is none)
RECURSIVE NonSpaceEnd(_, _)
NonSpaceEnd(t, i) ==
    IF i <= Len(t) /\ ~IsSpace(t[i]) THEN NonSpaceEnd(t, i + 1) ELSE i - 1

\* https?://[^\s]+ matched at position i: the position of its last
\* character, or 0 when it does not match there
MatchUrl(t, i) ==
    LET q == IF StartsAt(t, i, <<"h", "t", "t", "p", "s", ":", "/", "/">>) THEN i + 8
             ELSE IF StartsAt(t, i, <<"h", "t", "t", "p", ":", "/", "/">>) THEN i + 7
             ELSE 0
    IN IF q = 0 THEN 0
       ELSE LET e == NonSpaceEnd(t, q) IN IF e < q THEN 0 ELSE e

RECURSIVE StripLinks(_, _)
\* re.sub(r"\[[^\]]+\]\([^\)]+\)|https?://[^\s]+", "", t) from position i on:
\* one left-to-right pass, the link alternative tried first at each position,
\* the scan resuming after each match
StripLinks(t, i) ==
    IF i > Len(t) THEN <<>>
    ELSE LET l == MatchLink(t, i)
             u == MatchUrl(t, i)
         IN IF l > 0 THEN StripLinks(t, l + 1)
            ELSE IF u > 0 THEN StripLinks(t, u + 1)
            ELSE <<t[i]>> \o StripLinks(t, i + 1)

\* Python truthiness of the values the model uses
Truthy(v) == v \notin {None, EmptyStr, Num(0), List(<<>>)}

\* a or b
Or(a, b) == IF Truthy(a) THEN a ELSE b

_clean_markdown(text) ==
    LET cleaned == Strip(CollapseEscapes(Or(text, EmptyStr).s))
    IN Str(StripLinks(cleaned, 1))

(***************************************************************************)
(* tools.py: web_search_tool                                               *)
(***************************************************************************)
\* bound: the most results one provider response carries in the model
\* (the code asks the provider for at most 5)
MaxResults == 2

\* mapping.get(key): None when the key is absent
Get(m, key) == IF key \in DOMAIN m THEN m[key] ELSE None

\* mapping.get(key, default)
GetDefault(m, key, default) == IF key \in DOMAIN m THEN m[key] ELSE default

\* literal texts of the three sentinel results (the source's are Korean)
MissingQueryTitle == Str(<<"query error">>)
MissingQueryText == Str(<<"no query was provided">>)
SearchFailedTitle == Str(<<"search failed">>)
SearchFailedPrefix == <<"Firecrawl search failed: ">>
SearchFailedDefault == Str(<<"search response failed">>)
NoResultsTitle == Str(<<"no search results">>)
NoResultsText == Str(<<"no meaningful search results found">>)

\* the one-element list every early return builds
Sentinel(title, markdown) ==
    List(<<[title |-> title, url |-> EmptyStr, markdown |-> markdown]>>)

\* query or request or kwargs.get("query") or kwargs.get("q")
ResolveQuery(a) ==
    Or(Or(Or(a.query, a.request), Get(a.kwargs, "query")), Get(a.kwargs, "q"))

\* result.get("markdown") or result.get("content") or ""
BodyOf(result) == Or(Or(Get(result, "markdown"), Get(result, "content")), EmptyStr)

RECURSIVE CleanChunks(_)
\* the loop over response.data: results without a body are skipped, the
\* others are appended with their body cleaned
CleanChunks(data) ==
    IF data = <<>> THEN <<>>
    ELSE LET result == Head(data)
             markdown == BodyOf(result)
         IN IF ~Truthy(markdown) THEN CleanChunks(Tail(data))
            ELSE <<[title |-> Get(result, "title"),
                    url |-> Get(result, "url"),
                    markdown |-> _clean_markdown(markdown)]>>
                 \o CleanChunks(Tail(data))

\* faulty variant of ChunksOrSentinel: the final "if not cleaned_chunks" is forgotten
ChunksOrSentinel_NoFallback(cleaned_chunks) == cleaned_chunks

\* the tail of web_search_tool: the sentinel for an empty list of chunks
ChunksOrSentinel(cleaned_chunks) ==
    IF ~Truthy(cleaned_chunks)
    THEN Sentinel(NoResultsTitle, NoResultsText)
    ELSE cleaned_chunks

web_search_tool(a, e) ==
    IF e.ctor = "raise" THEN Raised(e.ctor_exc)
    ELSE LET search_query == ResolveQuery(a) IN
    IF ~Truthy(search_query)
    THEN Returned(Sentinel(MissingQueryTitle, MissingQueryText))
    ELSE IF e.search.kind = "raise"
    THEN Returned(Sentinel(SearchFailedTitle, Str(SearchFailedPrefix \o e.search.exc)))
    ELSE LET response == e.search.response IN
    IF ~response.success
    THEN Returned(Sentinel(SearchFailedTitle,
                           GetDefault(response, "error", SearchFailedDefault)))
    ELSE Returned(ChunksOrSentinel(
             List(CleanChunks(Or(response.data, List(<<>>)).items))))

(***************************************************************************)
(* sub_agents/data_analyst.py and sub_agents/financial_analyst.py: the     *)
(* market-data tools.  The provider (yfinance) is the environment e:       *)
(*   e.failAt  the provider access that raises ("none": no access raises), *)
(*   e.exc     the text of the exception raised there,                     *)
(*   e.info    stock.info: None or a dict,                                 *)
(*   e.history stock.history(period): None or a table,                     *)
(*   e.income_stmt, e.balance_sheet, e.cash_flow: the statement tables.    *)
(* A table is [nrows, cols]: cols maps a column name to its nrows cells,   *)
(* a cell being Num(n) or NaN.                                             *)
(***************************************************************************)
NaN == [t |-> "nan"]
EmptyDict == <<>>

\* "not d" / "d or {}" for a value that is None or a dict
DictOrEmpty(d) == IF d = None \/ DOMAIN d = {} THEN EmptyDict ELSE d

\* DataFrame.empty: no rows or no columns
IsEmptyFrame(frame) == frame.nrows = 0 \/ DOMAIN frame.cols = {}

\* Series.dropna()
DropNa(series) == SelectSeq(series, LAMBDA c : c # NaN)

\* DataFrame.to_json(): a string holding the table
ToJson(frame) == [t |-> "json", of |-> frame]

\* the "NA" marker of a missing profile field
NA == Str(<<"NA">>)

\* message prefixes and texts (the source's are Korean)
CompanyInfoFailed == <<"company info lookup failed: ">>
CompanyInfoMissing == Str(<<"company info not found">>)
StockPriceFailed == <<"price data lookup failed: ">>
NoHistorySuffix == <<" period has no price history">>
MetricsFailed == <<"financial metrics lookup failed: ">>
MetricsMissing == Str(<<"financial metrics not found">>)

_error_response(ticker, message) ==
    [ticker |-> ticker, success |-> FALSE, error |-> message]

\* the provider accesses each tool makes, in order
ProviderCalls ==
    [get_company_info |-> {"Ticker", "info"},
     get_stock_price |-> {"Ticker", "info", "history"},
     get_financial_metrics |-> {"Ticker", "info"},
     get_income_statement |-> {"Ticker", "income_stmt"},
     get_balance_sheet |-> {"Ticker", "balance_sheet"},
     get_cash_flow |-> {"Ticker", "cash_flow"}]

ProviderRaises(e, f) == e.failAt \in ProviderCalls[f]

\* faulty variant of get_company_info: the try/except around the provider is missing
get_company_info_uncaught(ticker, e) ==
    IF ProviderRaises(e, "get_company_info")
    THEN Raised(e.exc)
    ELSE LET info == DictOrEmpty(e.info) IN
    IF info = EmptyDict
    THEN Returned(_error_response(ticker, CompanyInfoMissing))
    ELSE Returned([ticker |-> ticker,
                   success |-> TRUE,
                   company_name |-> GetDefault(info, "longName", NA),
                   industry |-> GetDefault(info, "industry", NA),
                   sector |-> GetDefault(info, "sector", NA)])

get_company_info(ticker, e) ==
    IF ProviderRaises(e, "get_company_info")
    THEN Returned(_error_response(ticker, Str(CompanyInfoFailed \o e.exc)))
    ELSE LET info == DictOrEmpty(e.info) IN
    IF info = EmptyDict
    THEN Returned(_error_response(ticker, CompanyInfoMissing))
    ELSE Returned([ticker |-> ticker,
                   success |-> TRUE,
                   company_name |-> GetDefault(info, "longName", NA),
                   industry |-> GetDefault(info, "industry", NA),
                   sector |-> GetDefault(info, "sector", NA)])

\* float(history["Close"].dropna().iloc[-1]) under its except clause:
\* None on KeyError (no Close column) and on IndexError (no non-null close)
LastCloseOrNone(history) ==
    IF "Close" \notin DOMAIN history.cols THEN None
    ELSE LET closes == DropNa(history.cols["Close"]) IN
         IF closes = <<>> THEN None ELSE closes[Len(closes)]

\* faulty variant of PeriodCandles: null closes are dropped before counting
PeriodCandles_NonNull(close_series) == Len(DropNa(close_series))

\* the number of candles the summary reports: close_series.shape[0]
PeriodCandles(close_series) == Len(close_series)

\* the price_summary dict of get_stock_price (history.get("Close") is None
\* exactly when the table has no Close column)
PriceSummary(history) ==
    LET has_close == "Close" \in DOMAIN history.cols
        close_series == IF has_close THEN history.cols["Close"] ELSE <<>>
    IN
    IF has_close /\ DropNa(close_series) # <<>>
    THEN LET closes == DropNa(close_series)
             recent_close == closes[Len(closes)]
             first_close == closes[1]
             change_pct == IF Truthy(first_close)
                           THEN Num(((recent_close.n - first_close.n) * 100) \div first_close.n)
                           ELSE None
         IN [latest_close |-> recent_close,
             change_pct |-> change_pct,
             period_candles |-> Num(PeriodCandles(close_series))]
    ELSE EmptyDict

get_stock_price(ticker, period, e) ==
    IF ProviderRaises(e, "get_stock_price")
    THEN Returned(_error_response(ticker, Str(StockPriceFailed \o e.exc)))
    ELSE LET info == DictOrEmpty(e.info)
             history == e.history
    IN
    IF history = None \/ IsEmptyFrame(history)
    THEN Returned(_error_response(ticker, Str(period.s \o NoHistorySuffix)))
    ELSE LET live == Get(info, "currentPrice")
             current_price == IF live = None THEN LastCloseOrNone(history) ELSE live
         IN Returned([ticker |-> ticker,
                      success |-> TRUE,
                      history |-> ToJson(history),
                      current_price |-> current_price,
                      price_summary |-> PriceSummary(history),
                      period |-> period])

get_financial_metrics(ticker, e) ==
    IF ProviderRaises(e, "get_financial_metrics")
    THEN Returned(_error_response(ticker, Str(MetricsFailed \o e.exc)))
    ELSE LET info == DictOrEmpty(e.info) IN
    IF info = EmptyDict
    THEN Returned(_error_response(ticker, MetricsMissing))
    ELSE Returned([ticker |-> ticker,
                   success |-> TRUE,
                   market_cap |-> GetDefault(info, "marketCap", NA),
                   pe_ratio |-> GetDefault(info, "trailingPE", NA),
                   dividend_yield |-> GetDefault(info, "dividendYield", NA),
                   beta |-> GetDefault(info, "beta", NA)])

\* faulty variant of StatementFailure: the statement tools catch like their siblings
StatementFailure_Caught(ticker, e) ==
    Returned(_error_response(ticker, Str(e.exc)))

\* what a statement tool does when a provider access raises: nothing catches
\* it, the exception leaves the function
StatementFailure(ticker, e) == Raised(e.exc)

get_income_statement(ticker, e) ==
    IF ProviderRaises(e, "get_income_statement")
    THEN StatementFailure(ticker, e)
    ELSE Returned([ticker |-> ticker,
                   success |-> TRUE,
                   income_statement |-> ToJson(e.income_stmt)])

get_balance_sheet(ticker, e) ==
    IF ProviderRaises(e, "get_balance_sheet")
    THEN StatementFailure(ticker, e)
    ELSE Returned([ticker |-> ticker,
                   success |-> TRUE,
                   balance_sheet |-> ToJson(e.balance_sheet)])

get_cash_flow(ticker, e) ==
    IF ProviderRaises(e, "get_cash_flow")
    THEN StatementFailure(ticker, e)
    ELSE Returned([ticker |-> ticker,
                   success |-> TRUE,
                   cash_flow |-> ToJson(e.cash_flow)])

(***************************************************************************)
(* Session variables at rest, for the specifications that study one tool   *)
(* call in isolation.                                                      *)
(***************************************************************************)
NoState == <<>>

SessionAtRest ==
    /\ state = NoState
    /\ artifacts = <<>>
    /\ actor = "none"
    /\ lastCall = Idle
    /\ nSaves = 0

SessionUnchanged == UNCHANGED <<state, artifacts, actor, lastCall, nSaves>>

(***************************************************************************)
(* SpecClean: _clean_markdown applied to every text over the fragments.    *)
(***************************************************************************)
\* bound: the number of fragments a body text is made of
MaxFrags == 4

Fragments ==
    { <<"h", "t", "t">>, <<"p", ":", "/", "/">>,
      <<"h", "t", "t", "p", "s", ":", "/", "/">>,
      <<"[">>, <<"]">>, <<"(">>, <<")">>, <<"a">>, <<SP>>, <<NL>>, <<BS>>,
      <<"[", "a", "]", "(", "a", ")">> }

RECURSIVE Flatten(_)
Flatten(fs) == IF fs = <<>> THEN <<>> ELSE Head(fs) \o Flatten(Tail(fs))

\* the texts made of at most n fragments
BodyTexts(n) == { Flatten(fs) : fs \in UNION { [1..k -> Fragments] : k \in 0..n } }

InitClean ==
    /\ pc = "ready"
    /\ fn = "none"
    /\ args \in { Str(b) : b \in BodyTexts(MaxFrags) }
    /\ env = None
    /\ ret = Idle
    /\ SessionAtRest

CleanMarkdown ==
    /\ pc = "ready"
    /\ pc' = "done"
    /\ fn' = "_clean_markdown"
    /\ ret' = Returned(_clean_markdown(args))
    /\ UNCHANGED <<args, env>>
    /\ SessionUnchanged

NextClean == CleanMarkdown

SpecClean == InitClean /\ [][NextClean]_vars

(***************************************************************************)
(* SpecSearch: one web_search_tool call for every argument combination and *)
(* every provider outcome.                                                 *)
(***************************************************************************)
\* every mapping from a subset of keys to values
Mappings(keys, values) == UNION { [ks -> values] : ks \in SUBSET keys }

SampleBody == <<"a", SP, "[", "a", "]", "(", "a", ")", NL, "h", "t", "t", "p", ":", "/", "/", "a">>
SampleContent == <<"h", "t", "t", "p", "s", ":", "/", "/", "a", SP, "a">>

SearchArgs ==
    { [query |-> q, request |-> r, kwargs |-> k] :
        q \in {None, EmptyStr, Str(<<"AI stocks">>)},
        r \in {None, Str(<<"chip makers">>)},
        k \in { m \in Mappings({"query", "q"}, {EmptyStr, Str(<<"cloud">>)}) :
                  "query" \in DOMAIN m => m["query"] # EmptyStr } }

ProviderResults ==
    { b @@ m :
        b \in { x \in Mappings({"markdown", "content"},
                               {EmptyStr, Str(SampleBody), Str(SampleContent)}) :
                  /\ "markdown" \in DOMAIN x => x["markdown"] # Str(SampleContent)
                  /\ "content" \in DOMAIN x => x["content"] = Str(SampleContent) },
        m \in { <<>>, [title |-> Str(<<"T">>), url |-> Str(<<"U">>)] } }

ProviderData ==
    {None} \cup { List(d) : d \in UNION { [1..n -> ProviderResults] : n \in 0..MaxResults } }

SearchResponses ==
    { [success |-> FALSE, data |-> None] @@ x :
        x \in Mappings({"error"}, {None, Str(<<"rate limited">>)}) }
    \cup { [success |-> TRUE, data |-> d] : d \in ProviderData }

SearchOutcomes ==
    { [kind |-> "raise", exc |-> <<"timeout">>] }
    \cup { [kind |-> "response", response |-> r] : r \in SearchResponses }

SearchEnvs ==
    { [ctor |-> c, ctor_exc |-> "ValueError", search |-> s] :
        c \in {"ok", "raise"}, s \in SearchOutcomes }

InitSearch ==
    /\ pc = "ready"
    /\ fn = "none"
    /\ args \in SearchArgs
    /\ env \in SearchEnvs
    /\ ret = Idle
    /\ SessionAtRest

WebSearch ==
    /\ pc = "ready"
    /\ pc' = "done"
    /\ fn' = "web_search_tool"
    /\ ret' = web_search_tool(args, env)
    /\ UNCHANGED <<args, env>>
    /\ SessionUnchanged

NextSearch == WebSearch

SpecSearch == InitSearch /\ [][NextSearch]_vars

(***************************************************************************)
(* SpecMarket: one call of one market-data tool for every ticker and every *)
(* provider behaviour.                                                     *)
(***************************************************************************)
Tickers == { Str(<<"AAPL">>), Str(<<"MSFT">>) }

DefaultPeriod == Str(<<"1mo">>)

Periods ==
    { Str(<<p>>) : p \in {"1d", "5d", "1mo", "3mo", "6mo", "1y", "2y", "5y",
                          "10y", "ytd", "max"} }

ExcTexts == { <<>>, <<"connection reset">> }

FailPoints == {"none", "Ticker", "info", "history", "income_stmt", "balance_sheet", "cash_flow"}

ProfileValues ==
    [longName |-> Str(<<"Apple Inc.">>), industry |-> Str(<<"Consumer Electronics">>),
     sector |-> Str(<<"Technology">>), marketCap |-> Num(3000)]

\* stock.info: None, {} or a dict holding some of the profile fields
Infos ==
    {None} \cup { [k \in ks |-> ProfileValues[k]] : ks \in SUBSET DOMAIN ProfileValues }

EmptyTable == [nrows |-> 0, cols |-> <<>>]
OneRowTable == [nrows |-> 1, cols |-> [Close |-> <<Num(100)>>]]

StatementTables == { EmptyTable, OneRowTable }

MarketEnvs ==
    { [failAt |-> f, exc |-> x, info |-> i, history |-> h,
       income_stmt |-> s1, balance_sheet |-> s2, cash_flow |-> s3] :
        f \in FailPoints, x \in ExcTexts, i \in Infos, h \in {None, OneRowTable},
        s1 \in StatementTables, s2 \in StatementTables, s3 \in StatementTables }

InitMarket ==
    /\ pc = "ready"
    /\ fn = "none"
    /\ args \in { [ticker |-> t, period |-> DefaultPeriod] : t \in Tickers }
    /\ env \in { e \in MarketEnvs : e.failAt = "none" => e.exc = <<>> }
    /\ ret = Idle
    /\ SessionAtRest

\* the call of tool f returning r
ToolCall(f, r) ==
    /\ pc = "ready"
    /\ pc' = "done"
    /\ fn' = f
    /\ ret' = r
    /\ UNCHANGED <<args, env>>
    /\ SessionUnchanged

GetCompanyInfo == ToolCall("get_company_info", get_company_info(args.ticker, env))
GetStockPrice == ToolCall("get_stock_price", get_stock_price(args.ticker, args.period, env))
GetFinancialMetrics == ToolCall("get_financial_metrics", get_financial_metrics(args.ticker, env))
GetIncomeStatement == ToolCall("get_income_statement", get_income_statement(args.ticker, env))
GetBalanceSheet == ToolCall("get_balance_sheet", get_balance_sheet(args.ticker, env))
GetCashFlow == ToolCall("get_cash_flow", get_cash_flow(args.ticker, env))

NextMarket ==
    \/ GetCompanyInfo
    \/ GetStockPrice
    \/ GetFinancialMetrics
    \/ GetIncomeStatement
    \/ GetBalanceSheet
    \/ GetCashFlow

SpecMarket == InitMarket /\ [][NextMarket]_vars

(***************************************************************************)
(* SpecPrice: get_stock_price for every period and every price history of  *)
(* at most MaxRows rows.                                                   *)
(***************************************************************************)
\* bound: the number of rows of a price history
MaxRows == 3

CloseCells == { NaN, Num(0), Num(100), Num(200) }

\* a history of n rows: no column at all, or Open and/or Close columns
Histories ==
    UNION { { [nrows |-> n, cols |-> o @@ c] :
                o \in { <<>>, [Open |-> [i \in 1..n |-> Num(100)]] },
                c \in { <<>> } \cup { [Close |-> cs] : cs \in [1..n -> CloseCells] } } :
            n \in 0..MaxRows }

PriceEnvs ==
    { [failAt |-> f, exc |-> <<"connection reset">>, info |-> i, history |-> h,
       income_stmt |-> EmptyTable, balance_sheet |-> EmptyTable, cash_flow |-> EmptyTable] :
        f \in {"none", "history"},
        i \in { None, [longName |-> Str(<<"Apple Inc.">>)], [currentPrice |-> Num(150)] },
        h \in {None} \cup Histories }

InitPrice ==
    /\ pc = "ready"
    /\ fn = "none"
    /\ args \in { [ticker |-> Str(<<"AAPL">>), period |-> p] : p \in Periods }
    /\ env \in PriceEnvs
    /\ ret = Idle
    /\ SessionAtRest

NextPrice == GetStockPrice

SpecPrice == InitPrice /\ [][NextPrice]_vars

(***************************************************************************)
(* agent.py and the four analysts: the session.  The runtime invokes one   *)
(* tool at a time: an analyst (whose final answer it stores under the      *)
(* analyst's output_key), a data/search tool function, or                  *)
(* save_advice_report.                                                     *)
(***************************************************************************)
\* bound: the number of save_advice_report invocations in one session
MaxSaves == 2

\* faulty variant of OutputKey: the news analyst's key copied from the data analyst
OutputKey_Copied ==
    [DataAnalyst |-> "data_analyst_result",
     FinancialAnalyst |-> "financial_analyst_result",
     NewsAnalyst |-> "data_analyst_result",
     SectorAnalyst |-> "sector_analyst_result"]

\* output_key of each analyst agent
OutputKey ==
    [DataAnalyst |-> "data_analyst_result",
     FinancialAnalyst |-> "financial_analyst_result",
     NewsAnalyst |-> "news_analyst_result",
     SectorAnalyst |-> "sector_analyst_result"]

Analysts == DOMAIN OutputKey

\* tools=[...] of each analyst agent
AnalystTools ==
    [DataAnalyst |-> {"get_company_info", "get_stock_price", "get_financial_metrics"},
     FinancialAnalyst |-> {"get_income_statement", "get_balance_sheet", "get_cash_flow"},
     NewsAnalyst |-> {"web_search_tool"},
     SectorAnalyst |-> {"web_search_tool"}]

ToolFunctions == UNION { AnalystTools[a] : a \in Analysts }

\* the final answer of analyst a
Answer(a) == Str(<<"answer of ", a>>)

\* d[k] = v on a dict
Put(d, k, v) == [x \in DOMAIN d \cup {k} |-> IF x = k THEN v ELSE d[x]]

\* headings of the report (the source's are Korean)
SummaryHeading == "# summary and investment advice"
SectorHeading == "## sector analyst report"
DataHeading == "## data analyst report"
FinancialHeading == "## financial analyst report"
NewsHeading == "## news analyst report"

\* "{value}" in an f-string: str(value), "None" for None
Format(v) == IF v = None THEN <<"None">> ELSE v.s

\* one section of the report: the heading line, then the line of the value's
\* text
Section(heading, v) == <<heading, NL>> \o Format(v) \o <<NL>>

\* faulty variant of Compose: the sector and data sections change places
Compose_Swapped(summary, sector, data, financial, news) ==
    Str(<<NL>> \o Section(SummaryHeading, summary)
        \o <<NL>> \o Section(DataHeading, data)
        \o <<NL>> \o Section(SectorHeading, sector)
        \o <<NL>> \o Section(FinancialHeading, financial)
        \o <<NL>> \o Section(NewsHeading, news))

\* the f-string of save_advice_report: a leading newline, the five sections
\* separated by blank lines (the lines' indentation is left out)
Compose(summary, sector, data, financial, news) ==
    Str(<<NL>> \o Section(SummaryHeading, summary)
        \o <<NL>> \o Section(SectorHeading, sector)
        \o <<NL>> \o Section(DataHeading, data)
        \o <<NL>> \o Section(FinancialHeading, financial)
        \o <<NL>> \o Section(NewsHeading, news))

\* the document save_advice_report builds from the state st
ReportOf(st, summary) ==
    Compose(summary,
            Get(st, "sector_analyst_result"),
            Get(st, "data_analyst_result"),
            Get(st, "financial_analyst_result"),
            Get(st, "news_analyst_result"))

\* faulty variant of StoreReport: a report already in the state is kept
StoreReport_KeepFirst(st, report) ==
    IF "report" \in DOMAIN st THEN st ELSE Put(st, "report", report)

\* state["report"] = report
StoreReport(st, report) == Put(st, "report", report)

ArtifactSuffix == <<"_investment_advice.md">>

\* f"{ticker}_investment_advice.md"
Filename(ticker) == Str(Format(ticker) \o ArtifactSuffix)

\* str.encode("utf-8")
EncodeUtf8(text) == [t |-> "bytes", encoding |-> "utf-8", of |-> text.s]

\* types.Part(inline_data=types.Blob(mime_type="text/markdown", data=...))
ArtifactOf(report) == [mime_type |-> "text/markdown", data |-> EncodeUtf8(report)]

\* tool_context.save_artifact(filename, artifact) when the store accepts it
SaveArtifact(store, filename, artifact) == Put(store, filename, artifact)

\* faulty variant of SaveResult: success only when every analyst entry is present
SaveResult_NeedsAll(st, persisted) ==
    IF ~persisted THEN Raised("save_artifact")
    ELSE Returned([success |-> \A a \in Analysts : OutputKey[a] \in DOMAIN st])

\* what save_advice_report hands back: the store's exception when
\* save_artifact raises, {"success": True} otherwise
SaveResult(st, persisted) ==
    IF persisted THEN Returned([success |-> TRUE]) ELSE Raised("save_artifact")

Summaries == { Str(<<"Buy">>) }

InitSession ==
    /\ pc = "session"
    /\ fn = "none"
    /\ args = None
    /\ env = None
    /\ ret = Idle
    /\ SessionAtRest

ToolUnchanged == UNCHANGED <<pc, fn, args, env>>

\* lastCall.overwrote records that the call replaced a different blob stored
\* under the same filename.

\* the runtime runs analyst a and stores its answer under its output_key
AnalystRun(a) ==
    /\ pc = "session"
    /\ state' = Put(state, OutputKey[a], Answer(a))
    /\ actor' = a
    /\ ret' = Returned(Answer(a))
    /\ UNCHANGED <<artifacts, lastCall, nSaves>>
    /\ ToolUnchanged

\* an analyst calls one of its data/search tool functions: none of them
\* receives the tool context, so none touches the session
SessionToolCall(f) ==
    /\ pc = "session"
    /\ actor' = f
    /\ ret' = Idle
    /\ UNCHANGED <<state, artifacts, lastCall, nSaves>>
    /\ ToolUnchanged

\* save_advice_report(tool_context, summary, ticker); persisted tells whether
\* the artifact store accepts the blob or raises
SaveAdviceReport(summary, ticker, persisted) ==
    /\ pc = "session"
    /\ nSaves < MaxSaves
    /\ LET report == ReportOf(state, summary)
           filename == Filename(ticker)
           artifact == ArtifactOf(report)
       IN /\ state' = StoreReport(state, report)
          /\ artifacts' = IF persisted
                          THEN SaveArtifact(artifacts, filename, artifact)
                          ELSE artifacts
          /\ ret' = SaveResult(state, persisted)
    /\ actor' = "save_advice_report"
    /\ lastCall' = [summary |-> summary, ticker |-> ticker, persisted |-> persisted,
                    overwrote |-> /\ persisted
                                  /\ Filename(ticker) \in DOMAIN artifacts
                                  /\ artifacts[Filename(ticker)]
                                       # ArtifactOf(ReportOf(state, summary))]
    /\ nSaves' = nSaves + 1
    /\ ToolUnchanged

NextSession ==
    \/ \E a \in Analysts : AnalystRun(a)
    \/ \E f \in ToolFunctions : SessionToolCall(f)
    \/ \E summary \in Summaries, ticker \in Tickers, persisted \in BOOLEAN :
           SaveAdviceReport(summary, ticker, persisted)

Spec == InitSession /\ [][NextSession]_vars

(***************************************************************************)
(* Properties                                                              *)
(***************************************************************************)
SearchDone == pc = "done" /\ fn = "web_search_tool"

\* C1: every web_search_tool call that returns hands back a list of at
\* least one element, each element carrying the keys title, url and markdown.
C1_SearchNeverEmpty ==
    (SearchDone /\ ret.kind = "return") =>
        /\ ret.value.t = "list"
        /\ Len(ret.value.items) >= 1
        /\ \A i \in 1..Len(ret.value.items) :
               {"title", "url", "markdown"} \subseteq DOMAIN ret.value.items[i]

\* a call with a query whose provider answered two results, one of them
\* without body: the body-less one is skipped, the other is returned
C1_Witness ==
    /\ SearchDone
    /\ env.ctor = "ok"
    /\ Truthy(ResolveQuery(args))
    /\ env.search.kind = "response"
    /\ env.search.response.success
    /\ env.search.response.data # None
    /\ Len(env.search.response.data.items) = 2
    /\ ret.kind = "return"
    /\ Len(ret.value.items) = 1
    /\ ret.value.items[1].title = Str(<<"T">>)

\* none of query, request, kwargs["query"], kwargs["q"] is given or non-empty
NoQueryGiven(a) ==
    /\ a.query \in {None, EmptyStr}
    /\ a.request \in {None, EmptyStr}
    /\ Get(a.kwargs, "query") \in {None, EmptyStr}
    /\ Get(a.kwargs, "q") \in {None, EmptyStr}

\* C6: a web_search_tool call without any query never raises and returns
\* exactly the one missing-query sentinel, whatever the provider steps do.
C6_MissingQueryRecovered ==
    (SearchDone /\ NoQueryGiven(args)) =>
        /\ ret.kind = "return"
        /\ ret.value = Sentinel(MissingQueryTitle, MissingQueryText)

CleanDone == pc = "done" /\ fn = "_clean_markdown"

\* t holds "[text](target)" with a non-empty target (the text may be empty)
ContainsLink(t) ==
    \E i \in 1..Len(t) :
        /\ t[i] = "["
        /\ LET j == FirstAt(t, i + 1, "]") IN
           /\ j # 0
           /\ j + 1 <= Len(t)
           /\ t[j + 1] = "("
           /\ LET k == FirstAt(t, j + 2, ")") IN k > j + 2

\* t holds http:// or https:// followed by at least one non-blank character
ContainsUrl(t) ==
    \E i \in 1..Len(t) :
        \/ /\ StartsAt(t, i, <<"h", "t", "t", "p", ":", "/", "/">>)
           /\ i + 7 <= Len(t)
           /\ ~IsSpace(t[i + 7])
        \/ /\ StartsAt(t, i, <<"h", "t", "t", "p", "s", ":", "/", "/">>)
           /\ i + 8 <= Len(t)
           /\ ~IsSpace(t[i + 8])

\* C7: the text _clean_markdown returns holds no markdown link and no bare
\* URL.
C7_CleanStripsLinksAndUrls ==
    CleanDone => /\ ~ContainsLink(ret.value.s)
                 /\ ~ContainsUrl(ret.value.s)

PriceDone == pc = "done" /\ fn = "get_stock_price"

\* the non-null closing values of a history, in row order
NonNullCloses(history) ==
    IF history = None \/ "Close" \notin DOMAIN history.cols THEN <<>>
    ELSE SelectSeq(history.cols["Close"], LAMBDA c : c.t = "num")

HistoryMissing(history) ==
    history = None \/ history.nrows = 0 \/ DOMAIN history.cols = {}

\* C4 as stated: a success result has a numeric current_price and a
\* period_candles equal to the number of non-null closing values; a failure
\* result carries no history.
C4_CandlesCountNonNull ==
    PriceDone =>
        /\ ret.kind = "return"
        /\ IF ret.value.success
           THEN /\ ret.value.current_price.t = "num"
                /\ "period_candles" \in DOMAIN ret.value.price_summary
                /\ ret.value.price_summary.period_candles
                     = Num(Len(NonNullCloses(env.history)))
           ELSE "history" \notin DOMAIN ret.value

\* C4 amended: get_stock_price fails (success false, an error, no history
\* field) exactly when a provider access raises or the history is absent or
\* empty; otherwise it succeeds with current_price the provider's live price
\* if there is one, else the most recent non-null close, else None, and with
\* price_summary empty when there is no non-null close and otherwise with
\* period_candles equal to the number of rows of the history, rows with a
\* null close included.
C4_CandlesCountRows ==
    PriceDone =>
        /\ ret.kind = "return"
        /\ ret.value.ticker = args.ticker
        /\ ret.value.success
             <=> (env.failAt \notin {"Ticker", "info", "history"}
                  /\ ~HistoryMissing(env.history))
        /\ IF ret.value.success
           THEN LET closes == NonNullCloses(env.history)
                    live == IF env.info # None /\ "currentPrice" \in DOMAIN env.info
                            THEN env.info["currentPrice"] ELSE None
                IN /\ ret.value.current_price
                        = IF live # None THEN live
                          ELSE IF closes # <<>> THEN closes[Len(closes)]
                          ELSE None
                   /\ IF closes = <<>>
                      THEN DOMAIN ret.value.price_summary = {}
                      ELSE ret.value.price_summary.period_candles
                             = Num(env.history.nrows)
                   /\ ret.value.period = args.period
           ELSE /\ "history" \notin DOMAIN ret.value
                /\ "error" \in DOMAIN ret.value

\* a success on a history with a null close before a non-null one: the
\* candle count is larger than the number of non-null closes
C4_Witness ==
    /\ PriceDone
    /\ ret.kind = "return"
    /\ ret.value.success
    /\ env.info = None
    /\ env.history.nrows = 2
    /\ Len(NonNullCloses(env.history)) = 1
    /\ ret.value.price_summary.period_candles = Num(2)
    /\ ret.value.current_price = Num(200)

\* a text with at least one character
NonEmptyText(v) == v.t = "str" /\ \E i \in 1..Len(v.s) : v.s[i] # ""

\* C5: get_company_info never raises; when a provider access raises or the
\* profile is None or empty it returns the ticker, success false and a
\* non-empty error, otherwise success true with company_name, industry and
\* sector.
C5_CompanyInfoNeverRaises ==
    (pc = "done" /\ fn = "get_company_info") =>
        /\ ret.kind = "return"
        /\ ret.value.ticker = args.ticker
        /\ IF \/ env.failAt \in {"Ticker", "info"}
              \/ env.info = None
              \/ DOMAIN env.info = {}
           THEN /\ ret.value.success = FALSE
                /\ NonEmptyText(ret.value.error)
                /\ DOMAIN ret.value = {"ticker", "success", "error"}
           ELSE /\ ret.value.success = TRUE
                /\ {"company_name", "industry", "sector"} \subseteq DOMAIN ret.value

\* the provider raised inside get_company_info with an empty exception text
C5_Witness ==
    /\ pc = "done"
    /\ fn = "get_company_info"
    /\ env.failAt = "info"
    /\ env.exc = <<>>
    /\ ret.kind = "return"
    /\ ret.value.success = FALSE

StatementTools == {"get_income_statement", "get_balance_sheet", "get_cash_flow"}
GuardedTools == {"get_company_info", "get_stock_price", "get_financial_metrics"}

\* the provider attribute a statement tool reads
StatementSource ==
    [get_income_statement |-> "income_stmt",
     get_balance_sheet |-> "balance_sheet",
     get_cash_flow |-> "cash_flow"]

\* C8: a statement tool raises whenever one of its provider accesses raises
\* and builds no failure mapping; whenever it returns, the result has the
\* input ticker and success true.  The three other market-data tools turn
\* the same provider failure into the failure mapping.
C8_StatementsPropagate ==
    (pc = "done" /\ fn \in StatementTools \cup GuardedTools) =>
        /\ fn \in StatementTools =>
              /\ env.failAt \in {"Ticker", StatementSource[fn]}
                    => ret = Raised(env.exc)
              /\ ret.kind \in {"raise", "return"}
              /\ ret.kind = "return" =>
                    /\ ret.value.ticker = args.ticker
                    /\ ret.value.success = TRUE
                    /\ "error" \notin DOMAIN ret.value
        /\ fn \in GuardedTools =>
              (env.failAt = "Ticker" =>
                    /\ ret.kind = "return"
                    /\ ret.value.ticker = args.ticker
                    /\ ret.value.success = FALSE
                    /\ "error" \in DOMAIN ret.value)

\* the provider raised inside get_cash_flow and the call raised
C8_Witness ==
    /\ pc = "done"
    /\ fn = "get_cash_flow"
    /\ env.failAt = "cash_flow"
    /\ ret.kind = "raise"

SaveDone == actor = "save_advice_report"

AnalystKeys ==
    {"data_analyst_result", "financial_analyst_result", "news_analyst_result",
     "sector_analyst_result"}

\* the first position of token h in doc, or 0
Pos(doc, h) == FirstAt(doc, 1, h)

\* heading h stands at position i of doc, on a line of its own, directly
\* followed by the text
FollowedBy(doc, i, h, text) ==
    /\ i >= 1
    /\ i + 1 + Len(text) <= Len(doc)
    /\ doc[i] = h
    /\ doc[i + 1] = NL
    /\ SubSeq(doc, i + 2, i + 1 + Len(text)) = text

\* the five headings appear in doc in the fixed order, each followed by the
\* text given for it, no section overlapping the next
SectionsInOrder(doc, summary, sector, data, financial, news) ==
    LET i1 == Pos(doc, SummaryHeading)
        i2 == Pos(doc, SectorHeading)
        i3 == Pos(doc, DataHeading)
        i4 == Pos(doc, FinancialHeading)
        i5 == Pos(doc, NewsHeading)
    IN /\ FollowedBy(doc, i1, SummaryHeading, summary)
       /\ FollowedBy(doc, i2, SectorHeading, sector)
       /\ FollowedBy(doc, i3, DataHeading, data)
       /\ FollowedBy(doc, i4, FinancialHeading, financial)
       /\ FollowedBy(doc, i5, NewsHeading, news)
       /\ i1 + 1 + Len(summary) < i2
       /\ i2 + 1 + Len(sector) < i3
       /\ i3 + 1 + Len(data) < i4
       /\ i4 + 1 + Len(financial) < i5

AllAnalystsPresent ==
    \A k \in AnalystKeys : k \in DOMAIN state /\ NonEmptyText(state[k])

\* C2: after save_advice_report(summary, ticker) with all four analyst
\* entries set to non-empty strings, state["report"] holds the five headings
\* in the order summary, sector, data, financial, news, each followed by its
\* text, and, the store having accepted it, the artifact named
\* "<ticker>_investment_advice.md" holds that document as UTF-8 markdown.
C2_ReportSectionsInOrder ==
    (SaveDone /\ AllAnalystsPresent) =>
        /\ "report" \in DOMAIN state
        /\ SectionsInOrder(state["report"].s,
                           lastCall.summary.s,
                           state["sector_analyst_result"].s,
                           state["data_analyst_result"].s,
                           state["financial_analyst_result"].s,
                           state["news_analyst_result"].s)
        /\ lastCall.persisted =>
              LET name == Str(lastCall.ticker.s \o <<"_investment_advice.md">>) IN
              /\ name \in DOMAIN artifacts
              /\ artifacts[name].mime_type = "text/markdown"
              /\ artifacts[name].data.encoding = "utf-8"
              /\ artifacts[name].data.of = state["report"].s

\* save_advice_report("Buy", "AAPL") has run with all four entries present
\* and the artifact AAPL_investment_advice.md is stored
C2_Witness ==
    /\ SaveDone
    /\ AllAnalystsPresent
    /\ lastCall.summary = Str(<<"Buy">>)
    /\ lastCall.ticker = Str(<<"AAPL">>)
    /\ lastCall.persisted
    /\ Str(<<"AAPL", "_investment_advice.md">>) \in DOMAIN artifacts

HeadingOf ==
    [data_analyst_result |-> DataHeading,
     financial_analyst_result |-> FinancialHeading,
     news_analyst_result |-> NewsHeading,
     sector_analyst_result |-> SectorHeading]

\* C3: whenever the store accepts the artifact, save_advice_report returns
\* {success: true} and has written state["report"], whichever analyst
\* entries are absent; each absent entry is rendered as the placeholder
\* "None" under its heading.
C3_SuccessWithMissingEntries ==
    (SaveDone /\ lastCall.persisted) =>
        /\ ret = Returned([success |-> TRUE])
        /\ "report" \in DOMAIN state
        /\ \A k \in AnalystKeys :
              k \notin DOMAIN state =>
                  LET doc == state["report"].s IN
                  /\ FollowedBy(doc, Pos(doc, HeadingOf[k]), HeadingOf[k], <<"None">>)
                  /\ doc[Pos(doc, HeadingOf[k]) + 3] = NL

\* save_advice_report ran before any analyst and the store accepted the
\* artifact
C3_Witness ==
    /\ SaveDone
    /\ lastCall.persisted
    /\ DOMAIN state = {"report"}
    /\ ret = Returned([success |-> TRUE])

C10_OneWriterPerKey ==
    [][ /\ Cardinality({ OutputKey[a] : a \in Analysts }) = Cardinality(Analysts)
        /\ \A a \in Analysts : OutputKey[a] # "report"
        /\ \A k \in DOMAIN state \cup DOMAIN state' :
              Get(state', k) # Get(state, k) =>
                  \/ k = "report" /\ actor' = "save_advice_report"
                  \/ actor' \in Analysts /\ OutputKey[actor'] = k
      ]_vars

\* all five keys are written and a data/search tool function ran last
C10_Witness ==
    /\ DOMAIN state = AnalystKeys \cup {"report"}
    /\ actor \in ToolFunctions

====
